---- MODULE Spec2Model ----
(***************************************************************************)
(* VideoCutter: the main editor window (VideoCutter.py: VideoEditorApp and *)
(* its MarkerBar) and the modal section window (CutWindow.py: CutWindow).  *)
(*                                                                         *)
(* Times are integers counting milliseconds: the playback position is the  *)
(* player's get_time() (milliseconds), a value "in seconds" x is kept as   *)
(* 1000*x.  Texts are sequences of one-character strings.                  *)
(*                                                                         *)
(* Spec is the two windows and their commands.  SpecCommands is the main   *)
(* window with remove_cut_point callable on its own, SpecPreview the       *)
(* section window with its previews and their timers, SpecCodec the        *)
(* conversions (parse, format, silence duration) applied on their own.     *)
(***************************************************************************)
EXTENDS Integers, Sequences, FiniteSets, TLC

\* ------------------------------------------------------------------ bounds

\* Most cut points the timeline holds: an add that would append one more is
\* not taken.
MaxCuts == 2

\* Width of the marker bar in pixels (the widget's width()).
BarWidth == 12

\* The number of previews started in one section window.
MaxPreviews == 2

\* ------------------------------------------------------ program constants

\* MarkerBar.find_marker_by_position: abs(x_pos - x_position) < 5
ClickThreshold == 5

\* ------------------------------------------------------------------ inputs

\* Durations (ms) of the media files the open dialog can return.
Durations == {1000, 3000}

\* Values media_player.get_time() returns: -1 when nothing has been played
\* yet, otherwise a position of the media in milliseconds.
PlayerTimes == {-1, 1000}

\* Texts typed into the manual timecode field.
TypedTexts ==
    { <<"0","0",":","0","1">>,
      <<" ","0",":","0","0",":","0","2">>,
      <<"0","0",":","0","4">>,
      <<"b","a","d">> }

\* Texts typed into the silence field (its initial text is "1").
SilenceTexts ==
    { <<"1">>, <<"-","2">>, <<"a","b","c">> }

\* The number of fields of the texts given to parse_timecode on its own.
MaxFields == 4

\* The fields those texts are made of.
FieldTexts == { <<>>, << "1" >>, << "0", "2" >>, << "0", "0", "4" >>, << "x" >> }

\* ":".join(fields)
RECURSIVE Join(_)
Join(fields) ==
    IF Len(fields) = 1 THEN fields[1]
    ELSE fields[1] \o << ":" >> \o Join(Tail(fields))

\* The texts given to parse_timecode on its own: up to MaxFields fields,
\* with or without a blank before and after, and the texts of the examples.
ParseTexts ==
    { (IF before THEN << " " >> ELSE <<>>) \o Join(fields)
          \o (IF after THEN << " " >> ELSE <<>>) :
        fields \in UNION { [1..n -> FieldTexts] : n \in 1..MaxFields },
        before \in BOOLEAN, after \in BOOLEAN }
    \cup { << "0", "1", ":", "0", "2", ":", "0", "3" >>,
           << "0", "2", ":", "0", "5" >>,
           << "1", ":", "0", "2", ":", "0", "3", ":", "0", "0", "4" >>,
           << "1", "2", ":", "3", "4", ":", "5", "6", "7" >>,
           << "1", "2", ":", "3", "4", ":", "5", "6" >>,
           << "b", "a", "d" >> }

\* The times (ms) formatted and parsed back: whole seconds and not, below
\* and at 100 hours.
RoundTripTimes ==
    { 0, 1000, 1500, 59000, 61000, 3723000, 3723004, 359999000, 359999999,
      360000000 }

\* The silence fields given to get_silence_duration on its own.
SilenceFieldTexts ==
    { <<>>, << "0" >>, << "1" >>, << "-", "2" >>, << "+", "3" >>,
      << " ", "2", " " >>, << "a", "b", "c" >>, << "n", "a", "n" >>,
      << "-", "n", "a", "n" >> }

VARIABLES
    video_path,             \* VideoEditorApp.video_path: "" or a file name
    clip,                   \* VideoEditorApp.clip: "None" or "clip"
    duration,               \* VideoEditorApp.duration (ms)
    cut_points,             \* VideoEditorApp.cut_points
    markers,                \* MarkerBar.markers
    bar_duration,           \* MarkerBar.duration (ms)
    text_edit,              \* the line the last command appended to
                            \* VideoEditorApp.text_edit, "" if it appended none
    stamps,                 \* history: stamps[i] < stamps[j] iff cut_points[i]
                            \* was added before cut_points[j]
    op,                     \* history: the command last handled and its input
    cw_open,                \* a CutWindow is executing (modal)
    sections,               \* CutWindow.sections
    section_ranges,         \* (start, end) captured by each preview button
    toggle_checked,         \* isChecked() of each section's toggle button
    silence_input,          \* text of CutWindow.silence_input
    background_image_path,  \* CutWindow.background_image_path: "None" or a path
    clips,                  \* the clip list the last build computed
    build,                  \* how the last build ended, and what was written
    player,                 \* CutWindow.media_player: what it plays
    timers,                 \* the pending QTimer.singleShot timers of the window
    previews,               \* history: number of previews started in the window
    merge,                  \* history: the section states of the window closed
                            \* last, and the cut point removed since
    codec                   \* a conversion applied on its own: input and result

vars == << video_path, clip, duration, cut_points, markers, bar_duration,
           text_edit, stamps, op, cw_open, sections, section_ranges,
           toggle_checked, silence_input, background_image_path, clips, build,
           player, timers, previews, merge, codec >>

main_vars == << video_path, clip, duration, cut_points, markers, bar_duration,
                stamps >>

cw_vars == << cw_open, sections, section_ranges, toggle_checked,
              silence_input, background_image_path, clips, build,
              player, timers, previews >>

\* ------------------------------------------------------------ list helpers

\* list.append(x)
list_append(list, x) == Append(list, x)

\* list.pop(index) / del list[index], index counted from 0
list_pop_at(list, index) ==
    [ i \in 1..(Len(list) - 1) |->
        IF i <= index THEN list[i] ELSE list[i + 1] ]

\* A pop that removes the first element instead of the last.
list_pop_first(list) == SubSeq(list, 2, Len(list))

\* list.pop(): removes the last element
list_pop(list) == SubSeq(list, 1, Len(list) - 1)

\* ------------------------------------------------------------------ texts

Digits == <<"0","1","2","3","4","5","6","7","8","9">>

IsDigit(c) == \E i \in 1..Len(Digits) : Digits[i] = c

DigitVal(c) == (CHOOSE i \in 1..Len(Digits) : Digits[i] = c) - 1

AllDigits(s) == \A i \in 1..Len(s) : IsDigit(s[i])

\* int(s) of a text of decimal digits
RECURSIVE ToInt(_)
ToInt(s) ==
    IF s = <<>> THEN 0
    ELSE ToInt(SubSeq(s, 1, Len(s) - 1)) * Len(Digits) + DigitVal(s[Len(s)])

\* str.strip(): leading and trailing blanks removed
RECURSIVE Strip(_)
Strip(s) ==
    IF s = <<>> THEN s
    ELSE IF Head(s) = " " THEN Strip(Tail(s))
    ELSE IF s[Len(s)] = " " THEN Strip(SubSeq(s, 1, Len(s) - 1))
    ELSE s

\* str.split(":")
RECURSIVE Split(_, _)
Split(s, cur) ==
    IF s = <<>> THEN << cur >>
    ELSE IF Head(s) = ":" THEN << cur >> \o Split(Tail(s), <<>>)
    ELSE Split(Tail(s), Append(cur, Head(s)))

\* A match that lets the groups after the first be longer than their width.
MatchesShape_at_least(groups, widths) ==
    /\ Len(groups) = Len(widths) + 1
    /\ Len(groups[1]) \in {1, 2}
    /\ \A k \in 1..Len(groups) : AllDigits(groups[k])
    /\ \A k \in 1..Len(widths) : Len(groups[k + 1]) >= widths[k]

\* A match that wants two digits in the first group as well.
MatchesShape_two_digits(groups, widths) ==
    /\ Len(groups) = Len(widths) + 1
    /\ Len(groups[1]) = 2
    /\ \A k \in 1..Len(groups) : AllDigits(groups[k])
    /\ \A k \in 1..Len(widths) : Len(groups[k + 1]) = widths[k]

\* re.match(r"^\d{1,2}(:\d{n})...$", text): the first group has one or two
\* digits, group k+1 has widths[k] digits.
MatchesShape(groups, widths) ==
    /\ Len(groups) = Len(widths) + 1
    /\ Len(groups[1]) \in {1, 2}
    /\ \A k \in 1..Len(groups) : AllDigits(groups[k])
    /\ \A k \in 1..Len(widths) : Len(groups[k + 1]) = widths[k]

None == [none |-> TRUE, value |-> 0]

\* No conversion is being applied on its own.
Idle == [fn |-> "idle", text |-> <<>>, x |-> 0, done |-> TRUE, result |-> None]

Some(v) == [none |-> FALSE, value |-> v]

\* VideoEditorApp.parse_timecode; the result is in milliseconds
parse_timecode(timecode_str) ==
    LET g == Split(Strip(timecode_str), <<>>)
    IN  IF MatchesShape(g, <<2, 2, 3>>)
        THEN Some(ToInt(g[1]) * 3600000 + ToInt(g[2]) * 60000
                  + ToInt(g[3]) * 1000 + ToInt(g[4]))
        ELSE IF MatchesShape(g, <<2, 2>>)
        THEN Some(ToInt(g[1]) * 3600000 + ToInt(g[2]) * 60000
                  + ToInt(g[3]) * 1000)
        ELSE IF MatchesShape(g, <<2, 3>>)
        THEN Some(ToInt(g[1]) * 60000 + ToInt(g[2]) * 1000 + ToInt(g[3]))
        ELSE IF MatchesShape(g, <<2>>)
        THEN Some(ToInt(g[1]) * 60000 + ToInt(g[2]) * 1000)
        ELSE None

\* str(n) of a natural number
RECURSIVE ToText(_)
ToText(n) ==
    IF n < Len(Digits) THEN << Digits[n + 1] >>
    ELSE ToText(n \div Len(Digits)) \o << Digits[(n % Len(Digits)) + 1] >>

\* f"{n:0w}": str(n), filled with zeros on the left up to width w
RECURSIVE ZeroFill(_, _)
ZeroFill(text, w) ==
    IF Len(text) >= w THEN text ELSE ZeroFill(<< "0" >> \o text, w)

\* VideoEditorApp.convert_seconds_to_timecode, of a time in ms that is not
\* negative:
\*   hours, remainder = divmod(int(seconds), 3600)
\*   minutes, remainder = divmod(remainder, 60)
\*   seconds = remainder
\*   milliseconds = int((seconds - int(seconds)) * 1000)
convert_seconds_to_timecode(seconds) ==
    LET whole == seconds \div 1000
        hours == whole \div 3600
        remainder == whole % 3600
        minutes == remainder \div 60
        seconds_2 == (remainder % 60) * 1000
        milliseconds == seconds_2 - (seconds_2 \div 1000) * 1000
    IN  ZeroFill(ToText(hours), 2) \o << ":" >>
        \o ZeroFill(ToText(minutes), 2) \o << ":" >>
        \o ZeroFill(ToText(seconds_2 \div 1000), 2) \o << ":" >>
        \o ZeroFill(ToText(milliseconds), 3)

\* CutWindow.convert_seconds_to_timecode, of a time in ms that is not
\* negative
CutWindow_convert_seconds_to_timecode(seconds) ==
    LET whole == seconds \div 1000
        hours == whole \div 3600
        remainder == whole % 3600
        minutes == remainder \div 60
        seconds_2 == remainder % 60
    IN  ZeroFill(ToText(hours), 2) \o << ":" >>
        \o ZeroFill(ToText(minutes), 2) \o << ":" >>
        \o ZeroFill(ToText(seconds_2), 2)

\* ------------------------------------------------ MarkerBar (VideoCutter.py)

\* MarkerBar.add_marker: append when 0 <= time_position <= self.duration
add_marker(list, time_position) ==
    IF 0 <= time_position /\ time_position <= bar_duration
    THEN list_append(list, time_position)
    ELSE list

\* MarkerBar.remove_marker: del self.markers[index] when the index is valid
remove_marker(list, index) ==
    IF 0 <= index /\ index < Len(list)
    THEN list_pop_at(list, index)
    ELSE list

Abs(n) == IF n < 0 THEN -n ELSE n

\* int((marker / self.duration) * self.width()); markers are never negative
x_pos(marker) == (marker * BarWidth) \div bar_duration

\* The 1-based positions of the markers a click at x_position is near.
NearMarkers(x_position) ==
    { i \in 1..Len(markers) : Abs(x_pos(markers[i]) - x_position) < ClickThreshold }

\* MarkerBar.find_marker_by_position: the first near marker's index
\* (counted from 0), or None
find_marker_by_position(x_position) ==
    IF NearMarkers(x_position) = {} THEN None
    ELSE Some((CHOOSE i \in NearMarkers(x_position) :
                 \A j \in NearMarkers(x_position) : i <= j) - 1)

\* ------------------------------------------- VideoEditorApp (VideoCutter.py)

\* The section states of the window closed last and the index of the cut
\* point a click removed since, kept until the command after the next
\* opening; this value when there is no such window.
NoMerge == [sections |-> <<>>, removed |-> -1]

\* The record of a handled command: its name and its input.
Command(name, arg) ==
    [name |-> name, arg |-> arg, has_time |-> FALSE,
     prev_cut_points |-> <<>>, prev_markers |-> <<>>]

\* The record of an add command: has_time says that arg is the time t the
\* command was given (a typed text that does not parse gives no time);
\* prev_* are the two lists as the handler found them.
AddCommand(name, arg, has_time) ==
    [name |-> name, arg |-> arg, has_time |-> has_time,
     prev_cut_points |-> cut_points, prev_markers |-> markers]

\* VideoEditorApp.load_video: the dialog returns a file of duration d, or ""
load_video(path, d) ==
    /\ ~cw_open
    /\ video_path' = path
    /\ IF path # ""
       THEN /\ clip' = "clip"
            /\ duration' = d
            /\ bar_duration' = d
       ELSE UNCHANGED << clip, duration, bar_duration >>
    /\ op' = Command("load_video", d)
    /\ text_edit' = ""
    /\ merge' = NoMerge
    /\ UNCHANGED << cut_points, markers, stamps, codec >>
    /\ UNCHANGED cw_vars

\* The order of addition of the elements of a list of stamps, as ranks 1..n.
Ranks(s) ==
    [ i \in 1..Len(s) |-> Cardinality({ j \in 1..Len(s) : s[j] <= s[i] }) ]

\* The appends of both add commands.
append_cut_point(t) ==
    /\ Len(cut_points) < MaxCuts
    /\ Len(markers) < MaxCuts
    /\ cut_points' = list_append(cut_points, t)
    /\ stamps' = Ranks(list_append(stamps, Len(stamps) + 1))
    /\ markers' = add_marker(markers, t)

\* VideoEditorApp.add_cut_point: a cut at the playback position
add_cut_point(player_time) ==
    /\ ~cw_open
    /\ IF clip = "None"
       THEN /\ text_edit' = ""
            /\ UNCHANGED << cut_points, stamps, markers >>
       ELSE /\ append_cut_point(player_time)
            /\ text_edit' = "timecode"
    /\ op' = AddCommand("add_cut_point", player_time, TRUE)
    /\ merge' = NoMerge
    /\ UNCHANGED << video_path, clip, duration, bar_duration, codec >>
    /\ UNCHANGED cw_vars

\* VideoEditorApp.add_manual_marker: a cut at a typed timecode.  With no
\* clip loaded, self.clip.duration raises and the handler ends there.
add_manual_marker(timecode_str) ==
    LET timecode_seconds == parse_timecode(timecode_str)
    IN  /\ ~cw_open
        /\ IF timecode_seconds.none
           THEN /\ text_edit' = "Invalid timecode."
                /\ UNCHANGED << cut_points, stamps, markers >>
           ELSE IF clip = "None"
           THEN /\ text_edit' = ""
                /\ UNCHANGED << cut_points, stamps, markers >>
           ELSE IF 0 <= timecode_seconds.value /\ timecode_seconds.value <= duration
           THEN /\ append_cut_point(timecode_seconds.value)
                /\ text_edit' = "Marker added at"
           ELSE /\ text_edit' = "Invalid timecode."
                /\ UNCHANGED << cut_points, stamps, markers >>
        /\ op' = AddCommand("add_manual_marker", timecode_seconds.value,
                            ~timecode_seconds.none)
        /\ merge' = NoMerge
        /\ UNCHANGED << video_path, clip, duration, bar_duration, codec >>
        /\ UNCHANGED cw_vars

\* VideoEditorApp.undo_last_marker
undo_last_marker ==
    /\ ~cw_open
    /\ IF cut_points # <<>>
       THEN /\ cut_points' = list_pop(cut_points)
            /\ stamps' = Ranks(list_pop(stamps))
            /\ markers' = remove_marker(markers, Len(markers) - 1)
            /\ text_edit' = "Removed marker at"
       ELSE /\ text_edit' = "No markers to undo."
            /\ UNCHANGED << cut_points, stamps, markers >>
    /\ op' = Command("undo_last_marker", 0)
    /\ merge' = NoMerge
    /\ UNCHANGED << video_path, clip, duration, bar_duration, codec >>
    /\ UNCHANGED cw_vars

\* A remove_cut_point whose test lets the index len(cut_points) through.
remove_cut_point_upto_len(index) ==
    IF 0 <= index /\ index <= Len(cut_points)
    THEN /\ cut_points' = list_pop_at(cut_points, index)
         /\ stamps' = Ranks(list_pop_at(stamps, index))
         /\ text_edit' = "Removed marker at"
    ELSE /\ text_edit' = ""
         /\ UNCHANGED << cut_points, stamps >>

\* VideoEditorApp.remove_cut_point, as a change of (cut_points, stamps, text_edit)
remove_cut_point(index) ==
    IF 0 <= index /\ index < Len(cut_points)
    THEN /\ cut_points' = list_pop_at(cut_points, index)
         /\ stamps' = Ranks(list_pop_at(stamps, index))
         /\ text_edit' = "Removed marker at"
    ELSE /\ text_edit' = ""
         /\ UNCHANGED << cut_points, stamps >>

\* MarkerBar.mousePressEvent: a click on the marker bar at pixel x
mousePressEvent(x) ==
    LET clicked_marker_index == find_marker_by_position(x)
    IN  /\ ~cw_open
        /\ IF ~clicked_marker_index.none
           THEN /\ markers' = remove_marker(markers, clicked_marker_index.value)
                /\ remove_cut_point(clicked_marker_index.value)
           ELSE /\ text_edit' = ""
                /\ UNCHANGED << cut_points, stamps, markers >>
        /\ op' = Command("mousePressEvent", x)
        /\ merge' = IF ~clicked_marker_index.none /\ merge.sections # <<>>
                        /\ merge.removed < 0
                     THEN [merge EXCEPT !.removed = clicked_marker_index.value]
                     ELSE NoMerge
        /\ UNCHANGED << video_path, clip, duration, bar_duration, codec >>
        /\ UNCHANGED cw_vars

\* VideoEditorApp.remove_cut_point(index) called on its own, with any index:
\* the marker bar is not told.
call_remove_cut_point(index) ==
    /\ ~cw_open
    /\ remove_cut_point(index)
    /\ op' = Command("remove_cut_point", index)
    /\ merge' = NoMerge
    /\ UNCHANGED << video_path, clip, duration, bar_duration, markers, codec >>
    /\ UNCHANGED cw_vars

\* --------------------------------------------------- CutWindow (CutWindow.py)

\* How a build ended: result names the way the handler ended, written is
\* the clip list handed to write_audiofile / write_videofile, planned says
\* that the section loop ran.
Outcome(result, written, planned) ==
    [result |-> result, written |-> written, planned |-> planned]

NoBuild == Outcome("none", <<>>, FALSE)

\* A clip of the build's list: video.subclip(start, end).audio
KeepRange(start, end) ==
    [type |-> "KeepRange", start |-> start, end |-> end, duration |-> end - start]

\* A clip of the build's list: AudioClip(lambda t: [0], duration=d)
SilenceGap(d) ==
    [type |-> "SilenceGap", start |-> 0, end |-> 0, duration |-> d]

\* Section ends without the end of the media.
section_ends_without_duration == cut_points

\* self.cut_points + [self.duration]
section_ends == cut_points \o << duration >>

\* A section loop that never advances last_time.
RECURSIVE init_ui_ranges_stuck(_, _)
init_ui_ranges_stuck(ends, last_time) ==
    IF ends = <<>> THEN <<>>
    ELSE << << last_time, Head(ends) >> >> \o init_ui_ranges_stuck(Tail(ends), last_time)

\* CutWindow.init_ui, the section loop: the (start, end) each preview button
\* captures, for the section ends still to visit
RECURSIVE init_ui_ranges(_, _)
init_ui_ranges(ends, last_time) ==
    IF ends = <<>> THEN <<>>
    ELSE << << last_time, Head(ends) >> >> \o init_ui_ranges(Tail(ends), Head(ends))

\* A section window whose sections start as "delete".
initial_sections_delete == [i \in 1..Len(section_ends) |-> "delete"]

\* CutWindow.init_ui: self.sections.append("keep") for every section
initial_sections == [i \in 1..Len(section_ends) |-> "keep"]

\* A media player that plays nothing (vlc.MediaPlayer() as constructed).
NotPlaying == [playing |-> FALSE, id |-> 0, start |-> 0, end |-> 0, elapsed |-> 0]

\* A stop_preview that leaves the player as it is.
stop_preview_skipped(p) == p

\* CutWindow.stop_preview: if self.media_player.is_playing(): stop()
stop_preview(p) == IF p.playing THEN [p EXCEPT !.playing = FALSE] ELSE p

\* VideoEditorApp.open_cut_window: CutWindow.__init__ and init_ui, then exec_()
open_cut_window ==
    /\ ~cw_open
    /\ IF clip = "None"
       THEN /\ text_edit' = "No video loaded."
            /\ UNCHANGED cw_vars
       ELSE /\ cw_open' = TRUE
            /\ section_ranges' = init_ui_ranges(section_ends, 0)
            /\ sections' = initial_sections
            /\ toggle_checked' = [i \in 1..Len(section_ends) |-> TRUE]
            /\ silence_input' = << "1" >>
            /\ background_image_path' = "None"
            /\ clips' = <<>>
            /\ build' = NoBuild
            /\ player' = NotPlaying
            /\ timers' = {}
            /\ previews' = 0
            /\ text_edit' = ""
    /\ op' = Command("open_cut_window", 0)
    /\ UNCHANGED << video_path, clip, duration, cut_points, markers,
                    bar_duration, stamps, merge, codec >>

\* CutWindow.reject_and_stop_preview / closeEvent: stop_preview(), then the
\* dialog ends.  The timers still pending belong to the closed window and
\* can only stop its player, which no later window uses.
reject_and_stop_preview ==
    /\ cw_open
    /\ cw_open' = FALSE
    /\ section_ranges' = <<>>
    /\ sections' = <<>>
    /\ toggle_checked' = <<>>
    /\ silence_input' = <<>>
    /\ background_image_path' = "None"
    /\ clips' = <<>>
    /\ build' = NoBuild
    /\ player' = NotPlaying
    /\ timers' = {}
    /\ previews' = 0
    /\ op' = Command("reject_and_stop_preview", 0)
    /\ merge' = [sections |-> sections, removed |-> -1]
    /\ text_edit' = ""
    /\ UNCHANGED main_vars
    /\ UNCHANGED codec

\* CutWindow.toggle_section_choice(index, button): a click flips the
\* checkable button, then the handler reads isChecked()
toggle_section_choice(index) ==
    /\ cw_open
    /\ index \in 0..(Len(sections) - 1)
    /\ toggle_checked' = [toggle_checked EXCEPT ![index + 1] = ~@]
    /\ sections' = [sections EXCEPT
                      ![index + 1] = IF toggle_checked'[index + 1]
                                     THEN "keep" ELSE "delete"]
    /\ clips' = <<>>
    /\ build' = NoBuild
    /\ op' = Command("toggle_section_choice", index)
    /\ UNCHANGED << cw_open, section_ranges, silence_input, background_image_path >>
    /\ text_edit' = ""
    /\ merge' = NoMerge
    /\ UNCHANGED << main_vars, player, timers, previews, codec >>

\* The user edits the silence field.
edit_silence_input(text) ==
    /\ cw_open
    /\ silence_input' = text
    /\ clips' = <<>>
    /\ build' = NoBuild
    /\ op' = Command("edit_silence_input", 0)
    /\ UNCHANGED << cw_open, sections, section_ranges, toggle_checked,
                    background_image_path >>
    /\ text_edit' = ""
    /\ merge' = NoMerge
    /\ UNCHANGED << main_vars, player, timers, previews, codec >>

\* CutWindow.import_background_image: the dialog returns a path, or ""
import_background_image(image_path) ==
    /\ cw_open
    /\ background_image_path' =
         IF image_path # "" THEN image_path ELSE background_image_path
    /\ clips' = <<>>
    /\ build' = NoBuild
    /\ op' = Command("import_background_image", 0)
    /\ UNCHANGED << cw_open, sections, section_ranges, toggle_checked,
                    silence_input >>
    /\ text_edit' = ""
    /\ merge' = NoMerge
    /\ UNCHANGED << main_vars, player, timers, previews, codec >>

\* A float: not-a-number, or a number of ms.
NaN == [nan |-> TRUE, ms |-> 0]

Float(ms) == [nan |-> FALSE, ms |-> ms]

\* a > b on floats: False when either is not-a-number
Greater(a, b) == ~a.nan /\ ~b.nan /\ a.ms > b.ms

\* float(text), for the texts whose stripped form is an optional sign and
\* then decimal digits or "nan"; None stands for ValueError
float_of(text) ==
    LET s == Strip(text)
        neg == s # <<>> /\ Head(s) = "-"
        body == IF s # <<>> /\ Head(s) \in {"-", "+"} THEN Tail(s) ELSE s
    IN  IF body = << "n", "a", "n" >> THEN Some(NaN)
        ELSE IF body # <<>> /\ AllDigits(body)
        THEN Some(Float((IF neg THEN -1 ELSE 1) * ToInt(body) * 1000))
        ELSE None

\* max(a, b): the first argument, unless the second is greater
Max(a, b) == IF Greater(b, a) THEN b ELSE a

\* A get_silence_duration that answers 0 for a text that is not a number.
silence_duration_of_zero_default(text) ==
    LET silence_duration == float_of(text)
    IN  IF silence_duration.none THEN Float(0)
        ELSE Max(silence_duration.value, Float(0))

\* CutWindow.get_silence_duration, for the text of the silence field:
\*   try: return max(float(text), 0)
\*   except ValueError: return 1
silence_duration_of(text) ==
    LET silence_duration == float_of(text)
    IN  IF silence_duration.none THEN Float(1000)
        ELSE Max(silence_duration.value, Float(0))

\* CutWindow.get_silence_duration
get_silence_duration == silence_duration_of(silence_input)

\* A build loop that advances last_time only past the sections it keeps.
RECURSIVE section_loop_kept_only(_, _, _, _)
section_loop_kept_only(i, last_time, silence_duration, acc) ==
    IF i >= Len(section_ends) THEN acc
    ELSE LET cut_time == section_ends[i + 1]
         IN  IF sections[i + 1] = "keep"
             THEN section_loop_kept_only(i + 1, cut_time, silence_duration,
                      acc \o << KeepRange(last_time, cut_time) >>
                          \o (IF i < Len(cut_points)
                              THEN << SilenceGap(silence_duration) >>
                              ELSE <<>>))
             ELSE section_loop_kept_only(i + 1, last_time, silence_duration, acc)

\* The section loop of both builds, from section i (counted from 0) on:
\*   for i, cut_time in enumerate(self.cut_points + [self.duration]):
\*       if self.sections[i] == "keep": append the subclip,
\*           and a silence clip if i < len(self.cut_points)
\*       last_time = cut_time
RECURSIVE section_loop(_, _, _, _)
section_loop(i, last_time, silence_duration, acc) ==
    IF i >= Len(section_ends) THEN acc
    ELSE LET cut_time == section_ends[i + 1]
             kept == IF sections[i + 1] = "keep"
                     THEN << KeepRange(last_time, cut_time) >>
                          \o (IF i < Len(cut_points)
                              THEN << SilenceGap(silence_duration) >>
                              ELSE <<>>)
                     ELSE <<>>
         IN  section_loop(i + 1, cut_time, silence_duration, acc \o kept)

\* CutWindow.cut_and_join_sections_mp3.  confirm: the answer to the question
\* box; save_path: what the save dialog returns ("" when cancelled).
\* VideoFileClip raises for the empty path.
cut_and_join_sections_mp3(confirm, save_path) ==
    LET silence_duration == get_silence_duration
        kept_audio_clips == section_loop(0, 0, silence_duration, <<>>)
    IN  /\ cw_open
        /\ IF ~confirm
           THEN clips' = <<>> /\ build' = Outcome("declined", <<>>, FALSE)
           ELSE IF video_path = ""
           THEN clips' = <<>> /\ build' = Outcome("exception", <<>>, FALSE)
           ELSE /\ clips' = kept_audio_clips
                /\ build' =
                     IF kept_audio_clips # <<>>
                     THEN IF save_path # ""
                          THEN Outcome("written", kept_audio_clips, TRUE)
                          ELSE Outcome("not saved", <<>>, TRUE)
                     ELSE Outcome("nothing done", <<>>, TRUE)
        /\ op' = Command("cut_and_join_sections_mp3", 0)
        /\ UNCHANGED << cw_open, sections, section_ranges, toggle_checked,
                        silence_input, background_image_path >>
        /\ text_edit' = ""
        /\ player' = stop_preview(player)
        /\ merge' = NoMerge
        /\ UNCHANGED << main_vars, timers, previews, codec >>

\* CutWindow.cut_and_join_sections_with_background.  concatenate_audioclips
\* raises for an empty list.
cut_and_join_sections_with_background(confirm, save_path) ==
    LET silence_duration == get_silence_duration
        final_audio_clips == section_loop(0, 0, silence_duration, <<>>)
    IN  /\ cw_open
        /\ IF ~confirm
           THEN clips' = <<>> /\ build' = Outcome("declined", <<>>, FALSE)
           ELSE IF background_image_path = "None"
           THEN clips' = <<>>
                /\ build' = Outcome("no background image", <<>>, FALSE)
           ELSE IF video_path = ""
           THEN clips' = <<>> /\ build' = Outcome("exception", <<>>, FALSE)
           ELSE /\ clips' = final_audio_clips
                /\ build' =
                     IF final_audio_clips = <<>>
                     THEN Outcome("exception", <<>>, TRUE)
                     ELSE IF save_path # ""
                     THEN Outcome("written", final_audio_clips, TRUE)
                     ELSE Outcome("not saved", <<>>, TRUE)
        /\ op' = Command("cut_and_join_sections_with_background", 0)
        /\ UNCHANGED << cw_open, sections, section_ranges, toggle_checked,
                        silence_input, background_image_path >>
        /\ text_edit' = ""
        /\ player' = stop_preview(player)
        /\ merge' = NoMerge
        /\ UNCHANGED << main_vars, timers, previews, codec >>

\* ---------------------------------------------- previews (CutWindow.py)

\* media_player.set_media(media); play(); set_time(start): the one player of
\* the window now plays preview id from start
play(id, start, end) ==
    [playing |-> TRUE, id |-> id, start |-> start, end |-> end, elapsed |-> 0]

\* QTimer.singleShot(msec, self.stop_preview): Qt refuses a negative
\* timeout with a warning and schedules nothing.
singleShot(id, msec) ==
    IF msec >= 0 THEN {[id |-> id, remaining |-> msec]} ELSE {}

\* The media time left before the player reaches the end of the file.
media_left == duration - (player.start + player.elapsed)

\* What every command of the section window other than a build does to the
\* record of the last build.
forget_build ==
    /\ clips' = <<>>
    /\ build' = NoBuild
    /\ text_edit' = ""
    /\ merge' = NoMerge
    /\ UNCHANGED << cw_open, sections, section_ranges, toggle_checked,
                    silence_input, background_image_path, main_vars, codec >>

\* CutWindow.preview_section(start, end), from the Preview button of the
\* section at index
preview_section(index) ==
    /\ cw_open
    /\ index \in 0..(Len(section_ranges) - 1)
    /\ previews < MaxPreviews
    /\ LET start == section_ranges[index + 1][1]
           end == section_ranges[index + 1][2]
       IN  IF video_path # ""
           THEN /\ player' = play(previews + 1, start, end)
                /\ timers' = timers \cup singleShot(previews + 1, end - start)
                /\ previews' = previews + 1
           ELSE UNCHANGED << player, timers, previews >>
    /\ op' = Command("preview_section", index)
    /\ forget_build

\* The Stop Preview button: CutWindow.stop_preview
stop_preview_clicked ==
    /\ cw_open
    /\ player' = stop_preview(player)
    /\ op' = Command("stop_preview", 0)
    /\ UNCHANGED << timers, previews >>
    /\ forget_build

\* A single-shot timer whose time has come calls stop_preview.
singleShot_timeout(timer) ==
    /\ cw_open
    /\ timer \in timers
    /\ timer.remaining = 0
    /\ player' = stop_preview(player)
    /\ timers' = timers \ {timer}
    /\ op' = Command("singleShot_timeout", timer.id)
    /\ UNCHANGED previews
    /\ forget_build

\* The player reaches the end of the file and stops by itself.
end_reached ==
    /\ cw_open
    /\ player.playing
    /\ media_left <= 0
    /\ player' = [player EXCEPT !.playing = FALSE]
    /\ op' = Command("end_reached", 0)
    /\ UNCHANGED << timers, previews >>
    /\ forget_build

\* Time passes, up to the next thing due: a timer, or the end of the file.
time_passes ==
    LET due == { t.remaining : t \in timers }
                 \cup (IF player.playing THEN {media_left} ELSE {})
    IN  /\ cw_open
        /\ due # {}
        /\ \A d \in due : d > 0
        /\ \E delta \in due :
              /\ \A d \in due : delta <= d
              /\ timers' = { [t EXCEPT !.remaining = @ - delta] : t \in timers }
              /\ player' = IF player.playing
                            THEN [player EXCEPT !.elapsed = @ + delta]
                            ELSE player
        /\ op' = Command("time_passes", 0)
        /\ UNCHANGED previews
        /\ forget_build

\* ------------------------------------------ the conversions on their own

\* A conversion fn about to be applied to a text or to a time x.
Conversion(fn, text, x) ==
    [fn |-> fn, text |-> text, x |-> x, done |-> FALSE, result |-> None]

\* A conversion done: the result, and nothing else changes.
Converted(fn, result) ==
    /\ codec.fn = fn
    /\ ~codec.done
    /\ codec' = [codec EXCEPT !.done = TRUE, !.result = result]
    /\ UNCHANGED << video_path, clip, duration, cut_points, markers,
                    bar_duration, text_edit, stamps, op, merge >>
    /\ UNCHANGED cw_vars

\* VideoEditorApp.parse_timecode(text)
apply_parse_timecode ==
    Converted("parse_timecode", parse_timecode(codec.text))

\* parse_timecode(VideoEditorApp.convert_seconds_to_timecode(x))
round_trip_4 ==
    Converted("round_trip_4",
              parse_timecode(convert_seconds_to_timecode(codec.x)))

\* parse_timecode(CutWindow.convert_seconds_to_timecode(x))
round_trip_3 ==
    Converted("round_trip_3",
              parse_timecode(CutWindow_convert_seconds_to_timecode(codec.x)))

\* CutWindow.get_silence_duration with text in the silence field
apply_get_silence_duration ==
    Converted("get_silence_duration", Some(silence_duration_of(codec.text)))

\* ------------------------------------------------------------ specification

InitWindows ==
    /\ video_path = ""
    /\ clip = "None"
    /\ duration = 0
    /\ cut_points = <<>>
    /\ markers = <<>>
    /\ bar_duration = 0
    /\ text_edit = ""
    /\ stamps = <<>>
    /\ op = Command("init", 0)
    /\ cw_open = FALSE
    /\ sections = <<>>
    /\ section_ranges = <<>>
    /\ toggle_checked = <<>>
    /\ silence_input = <<>>
    /\ background_image_path = "None"
    /\ clips = <<>>
    /\ build = NoBuild
    /\ player = NotPlaying
    /\ timers = {}
    /\ previews = 0
    /\ merge = NoMerge

Init == InitWindows /\ codec = Idle

Next ==
    \/ \E d \in Durations : load_video("a.mp4", d)
    \/ load_video("", 0)
    \/ \E t \in PlayerTimes : add_cut_point(t)
    \/ \E text \in TypedTexts : add_manual_marker(text)
    \/ undo_last_marker
    \/ \E x \in 0..BarWidth : mousePressEvent(x)
    \/ open_cut_window
    \/ reject_and_stop_preview
    \/ \E i \in 0..MaxCuts : toggle_section_choice(i)
    \/ \E text \in SilenceTexts : edit_silence_input(text)
    \/ \E p \in {"", "bg.png"} : import_background_image(p)
    \/ \E confirm \in BOOLEAN, p \in {"", "out.mp3"} :
          cut_and_join_sections_mp3(confirm, p)
    \/ \E confirm \in BOOLEAN, p \in {"", "out.mp4"} :
          cut_and_join_sections_with_background(confirm, p)

Spec == Init /\ [][Next]_vars

\* The commands of the main window, with remove_cut_point callable on its
\* own with any index.
NextCommands ==
    \/ \E d \in Durations : load_video("a.mp4", d)
    \/ \E t \in PlayerTimes : add_cut_point(t)
    \/ \E text \in TypedTexts : add_manual_marker(text)
    \/ undo_last_marker
    \/ \E x \in 0..BarWidth : mousePressEvent(x)
    \/ \E index \in (-1)..MaxCuts : call_remove_cut_point(index)

SpecCommands == Init /\ [][NextCommands]_vars

\* The section window with its previews, over timelines made of typed
\* timecodes.
NextPreview ==
    \/ \E d \in Durations : load_video("a.mp4", d)
    \/ load_video("", 0)
    \/ \E text \in TypedTexts : add_manual_marker(text)
    \/ open_cut_window
    \/ reject_and_stop_preview
    \/ \E index \in 0..MaxCuts : preview_section(index)
    \/ stop_preview_clicked
    \/ \E timer \in timers : singleShot_timeout(timer)
    \/ end_reached
    \/ time_passes
    \/ \E confirm \in BOOLEAN : cut_and_join_sections_mp3(confirm, "out.mp3")
    \/ \E confirm \in BOOLEAN :
          cut_and_join_sections_with_background(confirm, "out.mp4")

SpecPreview == Init /\ [][NextPreview]_vars

\* The conversions applied on their own to bounded sets of inputs.
InitCodec ==
    /\ InitWindows
    /\ codec \in { Conversion("parse_timecode", text, 0) : text \in ParseTexts }
            \cup { Conversion(fn, <<>>, x) :
                     fn \in {"round_trip_3", "round_trip_4"},
                     x \in RoundTripTimes }
            \cup { Conversion("get_silence_duration", text, 0) :
                     text \in SilenceFieldTexts }

NextCodec ==
    \/ apply_parse_timecode
    \/ round_trip_4
    \/ round_trip_3
    \/ apply_get_silence_duration

SpecCodec == InitCodec /\ [][NextCodec]_vars

\* ---------------------------------------------------------------- claims

AddCommands == {"add_cut_point", "add_manual_marker"}

BuildCommands == {"cut_and_join_sections_mp3", "cut_and_join_sections_with_background"}

\* The last command was a build whose section loop ran.
Planned == op.name \in BuildCommands /\ build.planned

StrictlyIncreasing(s) == \A i \in 1..(Len(s) - 1) : s[i] < s[i + 1]

\* Every cut point is a position of the loaded media.
InRangeTimeline ==
    \A i \in 1..Len(cut_points) : 0 <= cut_points[i] /\ cut_points[i] <= duration

\* The timeline is as section 3 of the specification wants it.
WellFormedTimeline == InRangeTimeline /\ StrictlyIncreasing(cut_points)

\* C1 (as claimed; the code breaks it): in every reachable state the cut
\* points are strictly increasing, so no value occurs twice.  Stated for
\* the timelines whose cut points are all positions of the media.
C1_CutPointsStrictlyIncreasing ==
    InRangeTimeline => StrictlyIncreasing(cut_points)

IsGap(step) == step.type = "SilenceGap"

IsKeep(step) == step.type = "KeepRange"

\* C2 (as claimed; the code breaks it): the clip list of a build never
\* starts or ends with a silence gap; every gap has a kept range right
\* before it and right after it.  Stated for well-formed timelines.
C2_GapsOnlyBetweenKeptRanges ==
    (Planned /\ WellFormedTimeline) =>
        \A i \in 1..Len(clips) :
            IsGap(clips[i]) =>
                /\ i > 1 /\ IsKeep(clips[i - 1])
                /\ i < Len(clips) /\ IsKeep(clips[i + 1])

NumKept == Cardinality({ i \in 1..Len(sections) : sections[i] = "keep" })

NumGaps == Cardinality({ i \in 1..Len(clips) : IsGap(clips[i]) })

\* C3 (as claimed; the code breaks it): with k >= 1 kept sections the clip
\* list holds exactly k-1 silence gaps, one between each two consecutive
\* kept ranges: kept ranges and gaps alternate, kept range first and last.
\* Stated for well-formed timelines.
C3_OneGapPerTransition ==
    (Planned /\ WellFormedTimeline /\ NumKept >= 1) =>
        /\ NumGaps = NumKept - 1
        /\ Len(clips) = 2 * NumKept - 1
        /\ \A i \in 1..Len(clips) : IsGap(clips[i]) <=> (i % 2 = 0)

\* The (start, end) of the sections i..n that are kept, in section order.
RECURSIVE KeptSectionRanges(_)
KeptSectionRanges(i) ==
    IF i > Len(sections) THEN <<>>
    ELSE (IF sections[i] = "keep" THEN << section_ranges[i] >> ELSE <<>>)
         \o KeptSectionRanges(i + 1)

\* The (start, end) of the kept ranges of a clip list, in list order.
RECURSIVE KeepRangesOf(_)
KeepRangesOf(plan) ==
    IF plan = <<>> THEN <<>>
    ELSE (IF IsKeep(Head(plan))
          THEN << << Head(plan).start, Head(plan).end >> >> ELSE <<>>)
         \o KeepRangesOf(Tail(plan))

\* C4: the kept ranges of a build's clip list, in list order, are exactly
\* the sections marked keep, in ascending section order, each with the
\* start and end the section window shows for that section.
C4_KeepRangesAreKeptSections ==
    Planned => KeepRangesOf(clips) = KeptSectionRanges(1)

\* A build over keep, delete, keep.
C4_Witness ==
    /\ Planned
    /\ Len(KeepRangesOf(clips)) >= 2
    /\ \E i \in 1..Len(sections) : sections[i] = "delete"

AllDelete == \A i \in 1..Len(sections) : sections[i] = "delete"

\* C5 (as claimed; the code breaks it): a confirmed build over sections that
\* are all delete computes an empty clip list, reports NothingToKeep, writes
\* nothing, and leaves the section states and the cut points as they were.
C5_AllDeleteReportsNothingToKeep ==
    [][ (op'.name \in BuildCommands /\ build'.planned /\ AllDelete) =>
            /\ clips' = <<>>
            /\ build'.written = <<>>
            /\ build'.result = "NothingToKeep"
            /\ sections' = sections
            /\ cut_points' = cut_points ]_vars

\* C6: the sections the section window derives number len(cut_points)+1,
\* the first starts at 0, each ends where the next starts, the last ends at
\* the duration; with no cut points there is one section (0, duration).
C6_SectionsContiguous ==
    cw_open =>
        /\ Len(section_ranges) = Len(cut_points) + 1
        /\ Len(sections) = Len(section_ranges)
        /\ section_ranges[1][1] = 0
        /\ \A i \in 1..(Len(section_ranges) - 1) :
              section_ranges[i][2] = section_ranges[i + 1][1]
        /\ section_ranges[Len(section_ranges)][2] = duration
        /\ (cut_points = <<>> => section_ranges = << << 0, duration >> >>)

\* A section window over two cut points, the first of them after 0.
C6_Witness ==
    /\ cw_open
    /\ Len(cut_points) >= 2
    /\ cut_points[1] > 0

OutOfRange(t) == t < 0 \/ t > duration

\* C7 (as claimed; the code breaks it): with a media item loaded, an add at
\* a time outside [0, duration] is refused and changes neither the cut
\* points nor the markers, at the playback position and at a typed timecode.
C7_OutOfRangeAddChangesNothing ==
    [][ (op'.name \in AddCommands /\ op'.has_time /\ clip = "clip"
         /\ OutOfRange(op'.arg)) =>
            /\ cut_points' = cut_points
            /\ markers' = markers ]_vars

Elements(s) == { s[i] : i \in 1..Len(s) }

\* C8 (as claimed; the code breaks it): an add at a time that is already a
\* cut point is refused and leaves the cut points as they were.
C8_DuplicateAddChangesNothing ==
    [][ (op'.name \in AddCommands /\ op'.has_time /\ clip = "clip"
         /\ ~OutOfRange(op'.arg) /\ op'.arg \in Elements(cut_points)) =>
            cut_points' = cut_points ]_vars

\* The last command was an add that added a cut point.
Added == op.name \in AddCommands /\ cut_points # op.prev_cut_points

\* C9 (as claimed; the code breaks it): an undo right after an add that
\* added a cut point restores the cut points, the markers and the section
\* states to what they were before the add.
C9_AddThenUndoRestores ==
    [][ (Added /\ op'.name = "undo_last_marker") =>
            /\ cut_points' = op.prev_cut_points
            /\ markers' = op.prev_markers
            /\ sections' = sections ]_vars

\* C10: an undo on a timeline with cut points removes the cut point added
\* most recently among those present, which is the one at the last index:
\* the cut points (and their order of addition) become what
\* remove_cut_point(last index) makes of them.
C10_UndoIsLifoAndLastIndex ==
    [][ (op'.name = "undo_last_marker" /\ cut_points # <<>>) =>
            /\ \A j \in 1..Len(stamps) : stamps[j] <= stamps[Len(stamps)]
            /\ cut_points' = list_pop_at(cut_points, Len(cut_points) - 1)
            /\ stamps' = Ranks(list_pop_at(stamps, Len(stamps) - 1)) ]_vars

\* An undo that removed a cut point and left an earlier one.
C10_Witness ==
    /\ op.name = "undo_last_marker"
    /\ text_edit = "Removed marker at"
    /\ cut_points # <<>>

\* The last command was remove_cut_point(index), called on its own.
Removing == op'.name = "remove_cut_point"

ValidIndex(index) == 0 <= index /\ index <= Len(cut_points) - 1

\* The step removes exactly the cut point at index: the others stay, in the
\* same relative order.
RemovesExactly(index) ==
    /\ Len(cut_points') = Len(cut_points) - 1
    /\ \A j \in 1..Len(cut_points') :
          cut_points'[j] = IF j <= index THEN cut_points[j] ELSE cut_points[j + 1]

OpenedAfterRemoval ==
    op.name = "open_cut_window" /\ cw_open /\ merge.removed >= 0

\* The section states the claimed merge rule makes of states when the cut
\* point at index is removed.
MergedStates(states, index) ==
    [ j \in 1..(Len(states) - 1) |->
        IF j <= index THEN states[j]
        ELSE IF j = index + 1
             THEN IF states[j] = "keep" /\ states[j + 1] = "keep"
                  THEN "keep" ELSE "delete"
             ELSE states[j + 1] ]

StoreMatchesSections ==
    cw_open =>
        /\ Len(sections) = Len(cut_points) + 1
        /\ Len(sections) = Len(section_ends)
        /\ Len(sections) = Len(section_ranges)
        /\ \A j \in 1..Len(sections) :
              /\ sections[j] \in {"keep", "delete"}
              /\ op.name = "open_cut_window" => sections[j] = "keep"

\* An entry of an open window changes only by the toggle of that section.
OnlyToggleChanges ==
    (cw_open /\ cw_open') =>
        \A j \in 1..Len(sections) :
            sections'[j] # sections[j] =>
                op'.name = "toggle_section_choice" /\ op'.arg = j - 1

\* C13: in every reachable state the section-state store has exactly one
\* Keep/Delete entry per derived section (len(cut_points) + 1 of them, as
\* many as the build loop indexes), and every entry not yet toggled is Keep.
C13_OneStatePerSection ==
    [] StoreMatchesSections /\ [][OnlyToggleChanges]_vars

\* A build ran over a window with a section toggled to Delete and another
\* left as Keep.
C13_Witness ==
    /\ Planned
    /\ \E j, k \in 1..Len(sections) :
          sections[j] = "delete" /\ sections[k] = "keep"

\* C14 (as claimed; the code breaks it): right after a media item is
\* loaded, the cut points and the markers are empty, whatever cut points
\* the item loaded before had.
C14_LoadResetsTimeline ==
    (op.name = "load_video" /\ video_path # "") =>
        cut_points = <<>> /\ markers = <<>>

\* cutPoint / Duration * displayWidth, as int() truncates it.
Projected(t) ==
    IF t >= 0 THEN (t * BarWidth) \div bar_duration
    ELSE -(((-t) * BarWidth) \div bar_duration)

\* C19 (as claimed; the code breaks it): a click at x finds an index only if
\* the projected position of the cut point at that index is within the
\* tolerance of x, finds none only if no cut point is within the tolerance,
\* finds the first of several, and then deletes that same cut point and its
\* marker.
C19_ClickFindsAndDeletesCutPoint ==
    [][ op'.name = "mousePressEvent" =>
          LET found == find_marker_by_position(op'.arg)
              Within(j) ==
                  Abs(Projected(cut_points[j]) - op'.arg) < ClickThreshold
          IN  IF found.none
              THEN /\ \A j \in 1..Len(cut_points) : ~Within(j)
                   /\ cut_points' = cut_points
              ELSE /\ ValidIndex(found.value)
                   /\ Within(found.value + 1)
                   /\ \A j \in 1..found.value : ~Within(j)
                   /\ RemovesExactly(found.value)
                   /\ markers[found.value + 1] = cut_points[found.value + 1]
                   /\ markers' = remove_marker(markers, found.value) ]_vars

\* C15 (as claimed; the code breaks it): the timer of a preview never fires
\* while a later preview is playing and stops it, part of the way through
\* its range.
C15_StaleTimerNeverStopsLaterPreview ==
    [][ ( /\ op'.name = "singleShot_timeout"
          /\ player.playing
          /\ op'.arg # player.id
          /\ 0 < player.elapsed
          /\ player.elapsed < player.end - player.start )
        => player'.playing ]_vars

Trimmed(text) ==
    LET inked == { i \in 1..Len(text) : text[i] # " " }
    IN  IF inked = {} THEN <<>>
        ELSE SubSeq(text, CHOOSE i \in inked : \A j \in inked : i <= j,
                          CHOOSE i \in inked : \A j \in inked : j <= i)

\* The fields of a text made of digit fields of the given widths with ":"
\* between them, and <<>> for any other text.
RECURSIVE FieldsAt(_, _)
FieldsAt(text, widths) ==
    LET w == Head(widths)
        field == SubSeq(text, 1, w)
    IN  IF Len(widths) = 1
        THEN IF Len(text) = w /\ AllDigits(text) THEN << text >> ELSE <<>>
        ELSE IF Len(text) > w /\ AllDigits(field) /\ text[w + 1] = ":"
        THEN LET rest == FieldsAt(SubSeq(text, w + 2, Len(text)), Tail(widths))
             IN  IF rest = <<>> THEN <<>> ELSE << field >> \o rest
        ELSE <<>>

\* The four shapes in their priority order: the widths after the first
\* field, and the ms each field counts for.
TimecodeShapes ==
    << [name |-> "HH:MM:SS:mmm", widths |-> <<2, 2, 3>>,
        weights |-> <<3600000, 60000, 1000, 1>>],
       [name |-> "HH:MM:SS", widths |-> <<2, 2>>,
        weights |-> <<3600000, 60000, 1000>>],
       [name |-> "MM:SS:mmm", widths |-> <<2, 3>>,
        weights |-> <<60000, 1000, 1>>],
       [name |-> "MM:SS", widths |-> <<2>>, weights |-> <<60000, 1000>>] >>

\* The fields of the text read as the shape, its first field being of one
\* or two digits.
ReadAs(text, shape) ==
    LET one == FieldsAt(text, << 1 >> \o shape.widths)
    IN  IF one # <<>> THEN one ELSE FieldsAt(text, << 2 >> \o shape.widths)

RECURSIVE Weighted(_, _)
Weighted(fields, weights) ==
    IF fields = <<>> THEN 0
    ELSE ToInt(Head(fields)) * Head(weights) + Weighted(Tail(fields), Tail(weights))

\* The first of the four shapes the text has, 0 if it has none.
ShapeOf(text) ==
    IF \E k \in 1..Len(TimecodeShapes) : ReadAs(text, TimecodeShapes[k]) # <<>>
    THEN CHOOSE k \in 1..Len(TimecodeShapes) :
            /\ ReadAs(text, TimecodeShapes[k]) # <<>>
            /\ \A j \in 1..(k - 1) : ReadAs(text, TimecodeShapes[j]) = <<>>
    ELSE 0

\* The time the four shapes give a text, None if it has none of them.
Expected(text) ==
    IF ShapeOf(text) = 0 THEN None
    ELSE LET shape == TimecodeShapes[ShapeOf(text)]
         IN  Some(Weighted(ReadAs(text, shape), shape.weights))

\* parse_timecode was applied to a text.
Parsed == codec.fn = "parse_timecode" /\ codec.done

\* What the claim says of its example texts.
ExamplesParse ==
    /\ codec.text = << "0", "1", ":", "0", "2", ":", "0", "3" >>
          => codec.result = Some(3723000)
    /\ codec.text = << "0", "2", ":", "0", "5" >> => codec.result = Some(125000)
    /\ codec.text = << "1", ":", "0", "2", ":", "0", "3", ":", "0", "0", "4" >>
          => codec.result = Some(3723004)
    /\ codec.text = << "1", "2", ":", "3", "4", ":", "5", "6", "7" >>
          => codec.result = Some(12 * 60000 + 34 * 1000 + 567)
    /\ codec.text = << "1", "2", ":", "3", "4", ":", "5", "6" >>
          => codec.result = Some(12 * 3600000 + 34 * 60000 + 56 * 1000)
    /\ codec.text = << "b", "a", "d" >> => codec.result = None

\* C17 (as claimed; the code differs): parse_timecode accepts exactly the
\* texts of the four shapes, the first matching shape giving the time, and
\* answers None for every other text.
C17_ParseAcceptsExactlyFourShapes ==
    Parsed => codec.result = Expected(codec.text) /\ ExamplesParse

\* C17 (amended): parse_timecode accepts exactly the texts that, once their
\* leading and trailing blanks are removed, have one of the four shapes
\* (first field of one or two digits, the others of two, mmm of three), the
\* first matching shape giving hours*3600 + minutes*60 + seconds +
\* milliseconds/1000, and answers None for every other text; the examples
\* parse as stated.
C17_ParseAcceptsFourShapesTrimmed ==
    Parsed => codec.result = Expected(Trimmed(codec.text)) /\ ExamplesParse

\* parse_timecode accepted a text with a blank before it and a first field
\* of one digit, as MM:SS:mmm.
C17_Witness ==
    /\ Parsed
    /\ codec.text = << " ", "1", ":", "0", "2", ":", "0", "0", "4" >>
    /\ codec.result = Some(62004)

\* C18 (as claimed; the code breaks it): a whole number of seconds below
\* 100 hours formatted as HH:MM:SS, and a whole number of milliseconds
\* below 100 hours formatted as HH:MM:SS:mmm, parse back to themselves.
C18_RoundTrip ==
    ( /\ codec.done
      /\ codec.x < 360000000
      /\ \/ codec.fn = "round_trip_4"
         \/ codec.fn = "round_trip_3" /\ codec.x % 1000 = 0 )
    => codec.result = Some(codec.x)

\* C20 (as claimed; the code breaks it): the silence duration is 0 when the
\* text of the field is not a number or is negative, and is never negative
\* (nor not-a-number) for any text.
C20_SilenceClampedToZero ==
    (codec.fn = "get_silence_duration" /\ codec.done) =>
        LET typed == float_of(codec.text)
            used == codec.result.value
        IN  /\ ~used.nan
            /\ used.ms >= 0
            /\ (typed.none \/ typed.value.nan \/ typed.value.ms < 0)
                  => used.ms = 0

\* The text of the silence field without the blanks around it and without
\* its sign.
Unsigned(text) ==
    LET t == Trimmed(text)
    IN  IF t # <<>> /\ t[1] \in {"-", "+"} THEN Tail(t) ELSE t

\* The text of the silence field is a decimal number, with or without sign.
IsNumberText(text) == Unsigned(text) # <<>> /\ AllDigits(Unsigned(text))

IsNegativeText(text) == IsNumberText(text) /\ Trimmed(text)[1] = "-"

C22_MarkersEqualCutPoints ==
    /\ Len(markers) = Len(cut_points)
    /\ \A i \in 1..Len(markers) : markers[i] = cut_points[i]

\* C23 (as claimed; the code breaks it): every range (start, end) the
\* section window captures for a Preview button or extracts in a build
\* satisfies 0 <= start <= end <= duration.  Stated for timelines whose cut
\* points are all positions of the media.
C23_RangesWithinMedia ==
    (cw_open /\ InRangeTimeline) =>
        /\ \A i \in 1..Len(section_ranges) :
              /\ 0 <= section_ranges[i][1]
              /\ section_ranges[i][1] <= section_ranges[i][2]
              /\ section_ranges[i][2] <= duration
        /\ \A i \in 1..Len(clips) :
              IsKeep(clips[i]) =>
                  /\ 0 <= clips[i].start
                  /\ clips[i].start <= clips[i].end
                  /\ clips[i].end <= duration

\* The patterns of parse_timecode, numbered in the order it tries them,
\* that match the text.
Matching(text) ==
    { k \in 1..Len(TimecodeShapes) :
        MatchesShape(Split(Strip(text), <<>>), TimecodeShapes[k].widths) }

\* The orders in which the four patterns can be tried.
Orders ==
    { order \in [1..Len(TimecodeShapes) -> 1..Len(TimecodeShapes)] :
        \A i, j \in 1..Len(TimecodeShapes) : order[i] = order[j] => i = j }

\* What parse_timecode would return if it tried its patterns in the order.
ParseInOrder(text, order) ==
    IF Matching(text) = {} THEN None
    ELSE LET first == CHOOSE i \in 1..Len(order) :
                         /\ order[i] \in Matching(text)
                         /\ \A j \in 1..(i - 1) : order[j] \notin Matching(text)
         IN  Some(Weighted(Split(Strip(text), <<>>),
                           TimecodeShapes[order[first]].weights))

\* C24: no text matches more than one of the four patterns of
\* parse_timecode, and the value it returns is the value it would return
\* for every order in which the four patterns could be tried.
C24_PatternsExclusive ==
    Parsed =>
        /\ Cardinality(Matching(codec.text)) <= 1
        /\ \A order \in Orders : ParseInOrder(codec.text, order) = codec.result

\* parse_timecode read 12:34:567, which only the MM:SS:mmm pattern matches.
C24_Witness ==
    /\ Parsed
    /\ codec.text = << "1", "2", ":", "3", "4", ":", "5", "6", "7" >>
    /\ Matching(codec.text) = {3}
    /\ codec.result = Some(754567)

====
